---- MODULE Spec2Model ----
(***************************************************************************)
(* InboxIntel backend (src/backend/app.py): the OAuth handshake with its   *)
(* expiring single-use state documents, the session cookie, and the        *)
(* report-generation proxy that normalises the Lambda response envelope.   *)
(*                                                                         *)
(* One action is one handler, run by some thread of the Flask server,      *)
(* with the exceptions its store and network calls may raise.  The         *)
(* handler oauth2callback is three actions, split at its delete_one and    *)
(* at its update_one, so that two callbacks interleave as the server lets  *)
(* them: a callback in flight holds a thread p, its position pc[p] and     *)
(* its locals req[p].  out is the response that the last step sent, if it  *)
(* sent one, with the request it answers.                                  *)
(***************************************************************************)
EXTENDS Integers, Sequences, FiniteSets, TLC

VARIABLES now, oauth_states, users, reports, session, pc, req, out, passed

vars == <<now, oauth_states, users, reports, session, pc, req, out, passed>>

(***************************************************************************)
(* Bounds of the model.                                                    *)
(***************************************************************************)
MaxTime == 1         \* the clock stops after this many ticks
MaxStates == 2       \* state values issued by login
MaxReports == 2      \* reports stored
MaxLen == 3          \* length of a body / payload text, in characters
MaxPassed == 2       \* passed counts up to this many validations of one state

(***************************************************************************)
(* Program constants.  Time is counted in units of ten minutes.            *)
(***************************************************************************)
StateLifetime == 1       \* timedelta(minutes=10)
SessionLifetime == 6     \* timedelta(hours=1)
DefaultDays == 7         \* data.get('days', 7)
MaxListed == 10          \* .limit(10)

Procs == {"p1", "p2"}    \* threads that run oauth2callback
Clients == {"c1"}        \* browsers, each holding one session cookie
Emails == {"a@x", "b@x"}
StateValues == 1..MaxStates
NoEmail == ""            \* session.get('user_email') is None
NoTime == -1             \* a None timestamp

(***************************************************************************)
(* JSON values.  A value is [t, v]: t its Python type after json.loads     *)
(* and v its canonical text as a sequence of tokens; for a string v is the *)
(* sequence of its characters.                                             *)
(***************************************************************************)
Chars == {"{", "}", "[", "]", " ", "x"}

Strings == UNION {[1..n -> Chars] : n \in 0..MaxLen}

Str(s) == [t |-> "string", v |-> s]

NullValue == [t |-> "null", v |-> <<>>]

ObjectValue == [t |-> "object", v |-> <<"{", "total", ":", "5", "}">>]

ArrayValue == [t |-> "array", v |-> <<"[", "5", "]">>]

NumberValue == [t |-> "number", v |-> <<"5">>]

\* str.strip(): leading and trailing whitespace removed
RECURSIVE lstrip(_)
lstrip(s) == IF Len(s) > 0 /\ Head(s) = " " THEN lstrip(Tail(s)) ELSE s

RECURSIVE rstrip(_)
rstrip(s) ==
    IF Len(s) > 0 /\ s[Len(s)] = " " THEN rstrip(SubSeq(s, 1, Len(s) - 1)) ELSE s

strip(s) == rstrip(lstrip(s))

startswith(s, c) == Len(s) > 0 /\ s[1] = c

\* the first position from i on that holds no whitespace (Len(s) + 1 if none)
RECURSIVE SkipWs(_, _)
SkipWs(s, i) == IF i <= Len(s) /\ s[i] = " " THEN SkipWs(s, i + 1) ELSE i

ParseFail == [ok |-> FALSE, next |-> 0, val |-> NullValue]

\* The JSON grammar over Chars: an object has no members and an array at
\* most one element, since a member needs a quote and a colon and a second
\* element a comma, and none of them is in Chars.
RECURSIVE ParseValue(_, _)
ParseValue(s, i) ==
    IF i > Len(s) THEN ParseFail
    ELSE IF s[i] = "{" THEN
        LET j == SkipWs(s, i + 1) IN
        IF j <= Len(s) /\ s[j] = "}"
        THEN [ok |-> TRUE, next |-> j + 1, val |-> [t |-> "object", v |-> <<"{", "}">>]]
        ELSE ParseFail
    ELSE IF s[i] = "[" THEN
        LET j == SkipWs(s, i + 1) IN
        IF j <= Len(s) /\ s[j] = "]"
        THEN [ok |-> TRUE, next |-> j + 1, val |-> [t |-> "array", v |-> <<"[", "]">>]]
        ELSE LET r == ParseValue(s, j)
                 k == SkipWs(s, r.next)
             IN IF r.ok /\ k <= Len(s) /\ s[k] = "]"
                THEN [ok |-> TRUE, next |-> k + 1,
                      val |-> [t |-> "array", v |-> <<"[">> \o r.val.v \o <<"]">>]]
                ELSE ParseFail
    ELSE ParseFail

\* json.loads on a text: one value, whitespace around it, nothing after it
json_loads(s) ==
    LET r == ParseValue(s, SkipWs(s, 1)) IN
    IF r.ok /\ SkipWs(s, r.next) > Len(s)
    THEN [ok |-> TRUE, val |-> r.val]
    ELSE [ok |-> FALSE, val |-> NullValue]

\* try_json with the strip() of line 195 left out: the text is not stripped first
try_json_unstripped(x) ==
    LET y == IF x.t = "bytes" THEN Str(x.v) ELSE x IN
    IF x.t = "badbytes" THEN x
    ELSE IF y.t = "string" THEN
        IF startswith(y.v, "{") \/ startswith(y.v, "[")
        THEN IF json_loads(y.v).ok THEN json_loads(y.v).val ELSE y
        ELSE y
    ELSE y

try_json(x) ==
    LET y == IF x.t = "bytes" THEN Str(x.v) ELSE x IN
    IF x.t = "badbytes" THEN x
    ELSE IF y.t = "string" THEN
        LET s == strip(y.v) IN
        IF startswith(s, "{") \/ startswith(s, "[")
        THEN IF json_loads(s).ok THEN json_loads(s).val ELSE y
        ELSE y
    ELSE y

(***************************************************************************)
(* The Lambda response.  FunctionError is set or not, and Payload.read()   *)
(* gives bytes: nothing (k = "empty"), a text over Chars (k = "text"), or  *)
(* the JSON text of an object with an optional statusCode and an optional  *)
(* body (k = "envelope").                                                  *)
(***************************************************************************)
StatusCodes == {200, 500}

BodyValues == {ObjectValue, ArrayValue, NumberValue, NullValue} \cup {Str(s) : s \in Strings}

NoPayload ==
    [k |-> "none", chars |-> <<>>, hasStatus |-> FALSE, statusCode |-> 200,
     hasBody |-> FALSE, body |-> NullValue]

EmptyPayload == [NoPayload EXCEPT !.k = "empty"]

TextPayload(s) == [NoPayload EXCEPT !.k = "text", !.chars = s]

Envelope(hs, sc, hb, b) ==
    [k |-> "envelope", chars |-> <<>>, hasStatus |-> hs, statusCode |-> sc,
     hasBody |-> hb, body |-> b]

Payloads ==
    {EmptyPayload} \cup {TextPayload(s) : s \in Strings}
    \cup {Envelope(FALSE, 200, FALSE, NullValue)}
    \cup {Envelope(TRUE, sc, FALSE, NullValue) : sc \in StatusCodes}
    \cup {Envelope(FALSE, 200, TRUE, b) : b \in BodyValues}
    \cup {Envelope(TRUE, sc, TRUE, b) : sc \in StatusCodes, b \in BodyValues}

Responses == [FunctionError : BOOLEAN, Payload : Payloads]

\* the tokens of a value inside a JSON text: a string is quoted
Tokens(b) == IF b.t = "string" THEN <<"'">> \o b.v \o <<"'">> ELSE b.v

\* the dict that json.loads makes of an envelope, as a value
EnvelopeValue(e) ==
    LET sc == IF e.hasStatus THEN <<"statusCode", ":", ToString(e.statusCode)>> ELSE <<>>
        sep == IF e.hasStatus /\ e.hasBody THEN <<",">> ELSE <<>>
        bd == IF e.hasBody THEN <<"body", ":">> \o Tokens(e.body) ELSE <<>>
    IN [t |-> "object", v |-> <<"{">> \o sc \o sep \o bd \o <<"}">>]

\* response['Payload'].read() or b'{}'
ReadPayload(raw) == IF raw.k = "empty" THEN TextPayload(<<"{", "}">>) ELSE raw

\* json.loads(raw): ok is FALSE where it raises; val is the decoded value,
\* and for a dict the members that generate_report reads are kept beside it
Decode(raw) ==
    IF raw.k = "text"
    THEN LET r == json_loads(raw.chars) IN
         [ok |-> r.ok, val |-> r.val, hasStatus |-> FALSE, statusCode |-> 200,
          hasBody |-> FALSE, body |-> NullValue]
    ELSE [ok |-> TRUE, val |-> EnvelopeValue(raw), hasStatus |-> raw.hasStatus,
          statusCode |-> raw.statusCode, hasBody |-> raw.hasBody, body |-> raw.body]

\* {'summary': result_body}
Summary(s) == [t |-> "object", v |-> <<"{", "summary", ":", "'">> \o s \o <<"'", "}">>]

(***************************************************************************)
(* generate_report, from the response of lambda_client.invoke to the       *)
(* value it stores or the error it returns (lines 227-255).  next is       *)
(* "store" when the handler goes on to insert the report, "return" when it *)
(* returns an error and "raise" when an exception reaches line 270.        *)
(***************************************************************************)
\* str(e) of an exception
Exc(name) == [t |-> "exception", v |-> <<name>>]

Outcome(nx, ty, d) == [next |-> nx, type |-> ty, details |-> d]

FunctionErrorBranch(raw) ==
    LET raw_err == Decode(ReadPayload(raw)) IN
    IF ~raw_err.ok THEN Outcome("raise", "Server", Exc("JSONDecodeError"))
    ELSE Outcome("return", "LambdaFunctionError", try_json(raw_err.val))

\* lines 253-255 left out: the body is stored as it is
KeepBody(result_body) == result_body

\* lines 253-255: a body that is still a str is wrapped
EnsureObject(result_body) ==
    IF result_body.t = "string" THEN Summary(result_body.v) ELSE result_body

NormalBranch(raw) ==
    LET parsed == Decode(ReadPayload(raw)) IN
    IF ~parsed.ok THEN Outcome("raise", "Server", Exc("JSONDecodeError"))
    ELSE IF parsed.val.t # "object" THEN Outcome("raise", "Server", Exc("AttributeError"))
    ELSE
        LET status_code == IF parsed.hasStatus THEN parsed.statusCode ELSE 200
            result_body == try_json(IF parsed.hasBody THEN parsed.body ELSE parsed.val)
        IN IF status_code # 200
           THEN Outcome("return", "ReportGenerationFailed", try_json(result_body))
           ELSE Outcome("store", "", EnsureObject(result_body))

\* the normalisation without the test of line 227
NormalizeAsPlain(response) == NormalBranch(response.Payload)

Normalize(response) ==
    IF response.FunctionError
    THEN FunctionErrorBranch(response.Payload)
    ELSE NormalBranch(response.Payload)

(***************************************************************************)
(* Requests and responses.                                                 *)
(***************************************************************************)
NoResponse == [FunctionError |-> FALSE, Payload |-> NoPayload]

\* the locals of a request; invoked counts its calls of lambda_client.invoke
Idle ==
    [op |-> "none", client |-> "c1", email |-> NoEmail, url_state |-> 0, doc |-> 0,
     credentials |-> 0, days |-> 0, response |-> NoResponse, invoked |-> 0]

Request(op, c) == [Idle EXCEPT !.op = op, !.client = c]

\* a response, with the request it answers
NoResp ==
    [request |-> Idle, status |-> 0, success |-> FALSE, type |-> "",
     details |-> NullValue, report |-> NullValue, report_id |-> 0, reports |-> <<>>,
     last_sync |-> NoTime]

\* jsonify(...), status
Reply(status, type) == [NoResp EXCEPT !.status = status, !.type = type]

\* {'success': False, 'report': None, 'error': {'type': ..., 'details': ...}}, 200
GenerateError(type, details) == [Reply(200, type) EXCEPT !.details = details]

\* an exception that no handler catches: Flask answers for the handler
Uncaught(status) == Reply(status, "uncaught")

NoUser == [present |-> FALSE, credentials |-> 0, created_at |-> NoTime, last_sync |-> NoTime]

NoCookie == [user_email |-> NoEmail, at |-> NoTime]

\* a cookie that is accepted whatever its age
SessionGetForever(c) == session[c].user_email

\* session.get('user_email') on the cookie the request carries: the signed
\* cookie is rejected once it is older than PERMANENT_SESSION_LIFETIME
SessionGet(c) ==
    IF session[c].user_email # NoEmail /\ now - session[c].at <= SessionLifetime
    THEN session[c].user_email
    ELSE NoEmail

\* passed[s] counts the oauth2callback requests that found the state s valid
Issued == Len(passed)

Init ==
    /\ now = 0
    /\ oauth_states = {}
    /\ users = [e \in Emails |-> NoUser]
    /\ reports = <<>>
    /\ session = [c \in Clients |-> NoCookie]
    /\ pc = [p \in Procs |-> "idle"]
    /\ req = [p \in Procs |-> Idle]
    /\ out = NoResp
    /\ passed = <<>>

\* a handler that holds no thread between steps returns r to the request rq
Respond(rq, r) ==
    /\ out' = [r EXCEPT !.request = rq]
    /\ UNCHANGED <<pc, req>>

\* the callback rq of thread p returns r: the thread is free again
Return(p, rq, r) ==
    /\ pc' = [pc EXCEPT ![p] = "idle"]
    /\ req' = [req EXCEPT ![p] = Idle]
    /\ out' = [r EXCEPT !.request = rq]

\* the callback rq of thread p goes on to its next store call
Goto(p, rq, label) ==
    /\ pc' = [pc EXCEPT ![p] = label]
    /\ req' = [req EXCEPT ![p] = rq]
    /\ out' = NoResp

Tick ==
    /\ now < MaxTime
    /\ now' = now + 1
    /\ out' = NoResp
    /\ UNCHANGED <<oauth_states, users, reports, session, pc, req, passed>>

(***************************************************************************)
(* /api/auth/login                                                         *)
(***************************************************************************)
login ==
    /\ Issued < MaxStates
    /\ \E c \in Clients, config_ok, store_ok \in BOOLEAN :
        IF config_ok /\ store_ok
        THEN /\ oauth_states' = oauth_states \cup
                    {[state |-> Issued + 1, created_at |-> now,
                      expires_at |-> now + StateLifetime]}
             /\ passed' = Append(passed, 0)
             /\ Respond(Request("login", c), Reply(200, "auth_url"))
        ELSE /\ Respond(Request("login", c),
                        [Reply(500, "error") EXCEPT
                            !.details = Exc(IF config_ok THEN "store" ELSE "config")])
             /\ UNCHANGED <<oauth_states, passed>>
    /\ UNCHANGED <<now, users, reports, session>>

(***************************************************************************)
(* /oauth2callback                                                         *)
(***************************************************************************)
\* find_one({'state': url_state, 'expires_at': {'$gt': utcnow()}})
\* the lookup of lines 100-103 without its expires_at predicate
FindStateAnyAge(url_state) == {d \in oauth_states : d.state = url_state}

FindState(url_state) ==
    {d \in oauth_states : d.state = url_state /\ d.expires_at > now}

AuthFailed(e) == [Reply(500, "Authentication failed") EXCEPT !.details = Exc(e)]

\* lines 92-109: the state parameter and its lookup
oauth2callback_lookup(p) ==
    /\ pc[p] = "idle"
    /\ \E c \in Clients, url_state \in 0..MaxStates, store_ok \in BOOLEAN :
        LET rq == [Request("oauth2callback", c) EXCEPT !.url_state = url_state] IN
        IF url_state = 0
        THEN Return(p, rq, Reply(400, "No state parameter received")) /\ UNCHANGED passed
        ELSE IF ~store_ok
        THEN Return(p, rq, AuthFailed("store")) /\ UNCHANGED passed
        ELSE IF FindState(url_state) = {}
        THEN Return(p, rq, Reply(400, "Invalid or expired state")) /\ UNCHANGED passed
        ELSE /\ Goto(p, [rq EXCEPT !.doc = url_state], "delete")
             /\ passed' = [passed EXCEPT ![url_state] =
                                        IF @ < MaxPassed THEN @ + 1 ELSE @]
    /\ UNCHANGED <<now, oauth_states, users, reports, session>>

\* delete_one({'_id': state_doc['_id']})
\* line 112 left out: the state document is not deleted
KeepState(doc) == oauth_states

\* a delete_one with the filter {}: whichever document comes first
DeleteAnyState(doc) ==
    IF oauth_states = {} THEN {}
    ELSE oauth_states \ {CHOOSE d \in oauth_states : \A e \in oauth_states : d.state <= e.state}

DeleteState(doc) == {d \in oauth_states : d.state # doc}

\* lines 111-130: the state is deleted, then the token exchange and the
\* profile lookup run against the identity provider
oauth2callback_exchange(p) ==
    /\ pc[p] = "delete"
    /\ \E store_ok \in BOOLEAN, outcome \in {"fetch_token", "getProfile"} \cup Emails :
        IF ~store_ok
        THEN /\ Return(p, req[p], AuthFailed("store"))
             /\ UNCHANGED oauth_states
        ELSE /\ oauth_states' = DeleteState(req[p].doc)
             /\ IF outcome \in Emails
                THEN Goto(p, [req[p] EXCEPT !.email = outcome,
                                            !.credentials = req[p].url_state], "upsert")
                ELSE Return(p, req[p], AuthFailed(outcome))
    /\ UNCHANGED <<now, users, reports, session, passed>>

\* update_one({'email': user_email}, {'$set': user_data}, upsert=True)
\* lines 147-151 left out: no user document is written
UpsertNothing(email, credentials) == users

UpsertUser(email, credentials) ==
    [users EXCEPT ![email] =
        [present |-> TRUE, credentials |-> credentials, created_at |-> now,
         last_sync |-> NoTime]]

\* lines 132-155: the credential upsert, the session and the redirect
oauth2callback_upsert(p) ==
    /\ pc[p] = "upsert"
    /\ \E store_ok \in BOOLEAN :
        IF store_ok
        THEN /\ users' = UpsertUser(req[p].email, req[p].credentials)
             /\ session' = [session EXCEPT ![req[p].client] =
                                [user_email |-> req[p].email, at |-> now]]
             /\ Return(p, req[p], Reply(302, "/?status=success"))
        ELSE /\ Return(p, req[p], AuthFailed("store"))
             /\ UNCHANGED <<users, session>>
    /\ UNCHANGED <<now, oauth_states, reports, passed>>

(***************************************************************************)
(* /api/generate-report                                                    *)
(***************************************************************************)
\* The POST body: not JSON at all, a JSON list, an empty JSON object, or
\* an object with days.
RequestBodies == {"malformed", "list", "{}", "{days:30}"}

\* the store or network call of the request that raises, if one does
GenerateFaults == {"none", "find_one", "invoke", "insert_one", "update_one"}

\* reports_collection.insert_one(report_data).inserted_id
\* an insert that keeps one report for each user, body and days
InsertReportOnce(user_email, result_body, days) ==
    IF \E i \in 1..Len(reports) : /\ reports[i].user_email = user_email
                                  /\ reports[i].report = result_body
                                  /\ reports[i].days = days
    THEN reports
    ELSE Append(reports, [id |-> Len(reports) + 1, user_email |-> user_email,
                          report |-> result_body, days |-> days, created_at |-> now])

\* an insert that puts the new report before the others
InsertReportFirst(user_email, result_body, days) ==
    <<[id |-> Len(reports) + 1, user_email |-> user_email, report |-> result_body,
       days |-> days, created_at |-> now]>> \o reports

InsertReport(user_email, result_body, days) ==
    Append(reports,
           [id |-> Len(reports) + 1, user_email |-> user_email, report |-> result_body,
            days |-> days, created_at |-> now])

\* update_one({'email': user_email}, {'$set': {'last_sync': utcnow()}})
SetLastSync(user_email) ==
    IF users[user_email].present
    THEN [users EXCEPT ![user_email].last_sync = now]
    ELSE users

\* lines 257-272: the report is stored, last_sync is set, the report returned
StoreReport(rq, result_body, fault) ==
    IF fault = "insert_one"
    THEN /\ Respond(rq, GenerateError("Server", Exc("insert_one")))
         /\ UNCHANGED <<reports, users>>
    ELSE /\ reports' = InsertReport(rq.email, result_body, rq.days)
         /\ IF fault = "update_one"
            THEN /\ Respond(rq, GenerateError("Server", Exc("update_one")))
                 /\ UNCHANGED users
            ELSE /\ users' = SetLastSync(rq.email)
                 /\ Respond(rq, [Reply(200, "") EXCEPT !.success = TRUE,
                                                       !.report_id = Len(reports) + 1,
                                                       !.report = result_body])

\* lines 220-255: the invocation and the normalisation of its response,
\* the backend answering one of the responses R
Invoke(rq, R, fault) ==
    IF fault = "invoke"
    THEN /\ Respond([rq EXCEPT !.invoked = 1], GenerateError("Server", Exc("invoke")))
         /\ UNCHANGED <<reports, users>>
    ELSE \E response \in R :
        LET o == Normalize(response)
            rq1 == [rq EXCEPT !.invoked = 1, !.response = response]
        IN IF o.next = "store"
           THEN StoreReport(rq1, o.details, fault)
           ELSE /\ Respond(rq1, GenerateError(o.type, o.details))
                /\ UNCHANGED <<reports, users>>

\* the answer get_reports gives without a session (line 279)
NotAuthenticated401 == Reply(401, "Not authenticated")

\* line 205: the answer to a request without a session
NotAuthenticated == GenerateError("Auth", Str(<<>>))

\* lines 203-218: the session, the request body and the credential lookup,
\* the client posting one of the bodies B
GenerateReport(B, R) ==
    /\ \E c \in Clients, body \in B, fault \in GenerateFaults :
        LET user_email == SessionGet(c)
            found == user_email # NoEmail /\ users[user_email].present
            rq0 == [Request("generate_report", c) EXCEPT !.email = user_email]
            rq == [rq0 EXCEPT
                      !.days = IF body = "{days:30}" THEN 30 ELSE DefaultDays,
                      !.credentials = IF found THEN users[user_email].credentials ELSE 0]
        IN
        IF user_email = NoEmail
        THEN Respond(rq0, NotAuthenticated) /\ UNCHANGED <<reports, users>>
        ELSE IF body = "malformed"
        THEN Respond(rq0, Uncaught(400)) /\ UNCHANGED <<reports, users>>
        ELSE IF body = "list"
        THEN Respond(rq0, Uncaught(500)) /\ UNCHANGED <<reports, users>>
        ELSE IF fault = "find_one"
        THEN Respond(rq, Uncaught(500)) /\ UNCHANGED <<reports, users>>
        ELSE IF ~found
        THEN /\ Respond(rq, GenerateError("NotFound", Str(<<>>)))
             /\ UNCHANGED <<reports, users>>
        ELSE Invoke(rq, R, fault)
    /\ UNCHANGED <<now, oauth_states, session, passed>>

\* the handler while the archive holds fewer than MaxReports reports
generate_report(B, R) == Len(reports) < MaxReports /\ GenerateReport(B, R)

(***************************************************************************)
(* /api/user/status, /api/reports, /api/logout                             *)
(***************************************************************************)
user_status ==
    /\ \E c \in Clients, store_ok \in BOOLEAN :
        LET user_email == SessionGet(c)
            rq == [Request("user_status", c) EXCEPT !.email = user_email]
        IN
        IF user_email = NoEmail THEN Respond(rq, Reply(200, "status"))
        ELSE IF ~store_ok THEN Respond(rq, Uncaught(500))
        ELSE IF ~users[user_email].present THEN Respond(rq, Reply(200, "status"))
        ELSE Respond(rq, [Reply(200, "status") EXCEPT
                              !.success = TRUE,
                              !.last_sync = users[user_email].last_sync])
    /\ UNCHANGED <<now, oauth_states, users, reports, session, passed>>

\* the positions in reports of the documents of user_email
Owned(user_email) == {i \in 1..Len(reports) : reports[i].user_email = user_email}

\* .sort('created_at', -1) on the documents at the positions S: a newest
\* document first, then the others sorted
RECURSIVE SortDescending(_)
SortDescending(S) ==
    IF S = {} THEN {<<>>}
    ELSE LET newest == {i \in S : \A j \in S : reports[i].created_at >= reports[j].created_at}
         IN UNION {{<<reports[i]>> \o l : l \in SortDescending(S \ {i})} : i \in newest}

\* the sorted documents, all of them: a listing without .limit(10)
ListingsAll(user_email) == SortDescending(Owned(user_email))

\* find({'user_email': ...}).sort('created_at', -1).limit(10): the orders
\* the store may give, documents of one created_at in any order
Listings(user_email) ==
    {SubSeq(l, 1, IF Len(l) < MaxListed THEN Len(l) ELSE MaxListed) :
        l \in SortDescending(Owned(user_email))}

get_reports ==
    /\ \E c \in Clients, store_ok \in BOOLEAN :
        LET user_email == SessionGet(c)
            rq == [Request("get_reports", c) EXCEPT !.email = user_email]
        IN
        IF user_email = NoEmail THEN Respond(rq, Reply(401, "Not authenticated"))
        ELSE IF ~store_ok THEN Respond(rq, Uncaught(500))
        ELSE \E listing \in Listings(user_email) :
                Respond(rq, [Reply(200, "reports") EXCEPT !.reports = listing])
    /\ UNCHANGED <<now, oauth_states, users, reports, session, passed>>

\* a logout that answers and leaves the cookie as it is
logout_answer ==
    /\ \E c \in Clients :
        Respond(Request("logout", c), Reply(200, "Logged out successfully"))
    /\ UNCHANGED <<now, oauth_states, users, reports, session, passed>>

logout ==
    /\ \E c \in Clients :
        /\ session' = [session EXCEPT ![c] = NoCookie]
        /\ Respond(Request("logout", c), Reply(200, "Logged out successfully"))
    /\ UNCHANGED <<now, oauth_states, users, reports, passed>>

(***************************************************************************)
(* The server.  The backend answers one of SampleResponses, one response   *)
(* for every path through the normalisation, and the client posts one of   *)
(* SampleBodies.                                                           *)
(***************************************************************************)
SampleResponses ==
    {[FunctionError |-> TRUE, Payload |-> TextPayload(<<"x">>)],
     [FunctionError |-> TRUE, Payload |-> Envelope(FALSE, 200, FALSE, NullValue)],
     [FunctionError |-> FALSE, Payload |-> TextPayload(<<"[", "]">>)],
     [FunctionError |-> FALSE, Payload |-> Envelope(TRUE, 500, TRUE, Str(<<"x">>))],
     [FunctionError |-> FALSE, Payload |-> Envelope(TRUE, 200, TRUE, Str(<<"x">>))]}

SampleBodies == {"malformed", "list", "{}"}

Next ==
    \/ Tick
    \/ login
    \/ \E p \in Procs : oauth2callback_lookup(p)
    \/ \E p \in Procs : oauth2callback_exchange(p)
    \/ \E p \in Procs : oauth2callback_upsert(p)
    \/ generate_report(SampleBodies, SampleResponses)
    \/ user_status
    \/ get_reports
    \/ logout

Spec == Init /\ [][Next]_vars

(***************************************************************************)
(* Parts of the server, for the properties that concern one part.          *)
(***************************************************************************)
\* no callback is in flight
Sequential == \A p \in Procs : pc[p] = "idle"

\* the handshake, callbacks interleaving
AuthNext ==
    \/ Tick
    \/ login
    \/ \E p \in Procs : oauth2callback_lookup(p)
    \/ \E p \in Procs : oauth2callback_exchange(p)
    \/ \E p \in Procs : oauth2callback_upsert(p)

AuthSpec == Init /\ [][AuthNext]_vars

\* the handshake, a callback starting only after the one before has returned
SeqAuthNext ==
    \/ Tick
    \/ login
    \/ \E p \in Procs : Sequential /\ oauth2callback_lookup(p)
    \/ \E p \in Procs : oauth2callback_exchange(p)
    \/ \E p \in Procs : oauth2callback_upsert(p)

SeqAuthSpec == Init /\ [][SeqAuthNext]_vars

\* the whole server, one callback at a time
ReportNext ==
    \/ Tick
    \/ login
    \/ \E p \in Procs : Sequential /\ oauth2callback_lookup(p)
    \/ \E p \in Procs : oauth2callback_exchange(p)
    \/ \E p \in Procs : oauth2callback_upsert(p)
    \/ generate_report(SampleBodies, SampleResponses)
    \/ user_status
    \/ get_reports
    \/ logout

ReportSpec == Init /\ [][ReportNext]_vars

\* one user: a single login, then callbacks one at a time and reports
GenNext ==
    \/ Tick
    \/ Issued = 0 /\ login
    \/ \E p \in Procs : Sequential /\ oauth2callback_lookup(p)
    \/ \E p \in Procs : oauth2callback_exchange(p)
    \/ \E p \in Procs : oauth2callback_upsert(p)
    \/ generate_report(SampleBodies, SampleResponses)

GenSpec == Init /\ [][GenNext]_vars

\* one login and then one generate_report, the client posting any of
\* RequestBodies and the backend answering any of Responses
NoReportYet == out.request.op # "generate_report"

NormNext ==
    \/ NoReportYet /\ Issued = 0 /\ login
    \/ \E p \in Procs : NoReportYet /\ Sequential /\ oauth2callback_lookup(p)
    \/ \E p \in Procs : NoReportYet /\ oauth2callback_exchange(p)
    \/ \E p \in Procs : NoReportYet /\ oauth2callback_upsert(p)
    \/ NoReportYet /\ generate_report(RequestBodies, Responses)

NormSpec == Init /\ [][NormNext]_vars

\* a client that posts {} and a backend that answers status 200
ListBodies == {"{}"}

ListResponses == {[FunctionError |-> FALSE, Payload |-> Envelope(TRUE, 200, TRUE, Str(<<"x">>))]}

\* one user over the lifetime of a session cookie: the clock runs until a
\* cookie set at time 0 is too old, and the user starts a callback only
\* while the browser holds no cookie
SignedOut == \A c \in Clients : session[c] = NoCookie

MaxAge == SessionLifetime + 1

Elapse ==
    /\ now < MaxAge
    /\ now' = now + 1
    /\ out' = NoResp
    /\ UNCHANGED <<oauth_states, users, reports, session, pc, req, passed>>

SessionNext ==
    \/ Elapse
    \/ Issued = 0 /\ login
    \/ \E p \in Procs : Sequential /\ SignedOut /\ oauth2callback_lookup(p)
    \/ \E p \in Procs : oauth2callback_exchange(p)
    \/ \E p \in Procs : oauth2callback_upsert(p)
    \/ generate_report(ListBodies, ListResponses)
    \/ get_reports
    \/ logout

SessionSpec == Init /\ [][SessionNext]_vars

\* listings of an archive that is longer than a listing.  ListInit is a
\* state of the server after both users have signed in at time 0, the
\* second of them or none holding the session, and n reports have been
\* stored, two in each unit of time, the k-th by the user who signed in
\* first and the others by the other user, or the other way round.
MaxArchive == MaxListed + 1

ListArchive(n, k, e1, e2) ==
    [i \in 1..n |-> [id |-> i, user_email |-> IF i = k THEN e1 ELSE e2,
                     report |-> Summary(<<"x">>), days |-> DefaultDays,
                     created_at |-> (i - 1) \div 2]]

LastStored(archive, e) ==
    LET own == {i \in 1..Len(archive) : archive[i].user_email = e} IN
    IF own = {} THEN NoTime
    ELSE archive[CHOOSE i \in own : \A j \in own : j <= i].created_at

ListInit ==
    \E n \in 0..MaxArchive, k \in 0..MaxArchive, e1, e2 \in Emails, signed \in BOOLEAN :
        /\ k <= n
        /\ e1 # e2
        /\ reports = ListArchive(n, k, e1, e2)
        /\ now = IF n = 0 THEN 0 ELSE reports[n].created_at
        /\ users = [e \in Emails |->
                        [present |-> TRUE, credentials |-> IF e = e1 THEN 1 ELSE 2,
                         created_at |-> 0, last_sync |-> LastStored(reports, e)]]
        /\ session = [c \in Clients |->
                        IF signed THEN [user_email |-> e2, at |-> 0] ELSE NoCookie]
        /\ oauth_states = {}
        /\ passed = <<1, 1>>
        /\ pc = [p \in Procs |-> "idle"]
        /\ req = [p \in Procs |-> Idle]
        /\ out = NoResp

\* the positions of the reports stored in the current unit of time
StoredNow == {i \in 1..Len(reports) : reports[i].created_at = now}

\* one more report, stored before the first listing, and the listings
ListNext ==
    \/ /\ out = NoResp
       /\ Cardinality(StoredNow) < 2
       /\ GenerateReport(ListBodies, ListResponses)
    \/ get_reports

ListSpec == ListInit /\ [][ListNext]_vars

(***************************************************************************)
(* Properties.  out.request is the request that the last step answered:    *)
(* its op, the session email it resolved, the state it carried, the        *)
(* Lambda response it received.                                            *)
(***************************************************************************)
Generated == out.request.op = "generate_report"

Completed == out.request.op = "oauth2callback"

\* the Lambda answered the request: lambda_client.invoke returned
Answered == Generated /\ out.request.invoked = 1 /\ out.request.response # NoResponse

\* the response of the Lambda is an object with an optional statusCode and
\* an optional body, and carries no FunctionError
PlainEnvelope ==
    /\ Answered
    /\ ~out.request.response.FunctionError
    /\ out.request.response.Payload.k = "envelope"

\* C1: a generate_report request that carries a session is answered with
\* status 200 and a structured outcome, whichever step raised.
C1_NeverRaises ==
    (Generated /\ out.request.email # NoEmail) =>
        out.status = 200 /\ out.type # "uncaught"

\* C2: with callbacks one after another, no state value passes the lookup
\* of lines 100-103 more than once.
C2_OnePassSequential == \A s \in 1..Len(passed) : passed[s] <= 1

\* C3: two callbacks in flight past the lookup never hold the same state
\* document: only one of them passed validation for it.
C3_OnePassConcurrent ==
    \A p, q \in Procs :
        (p # q /\ pc[p] # "idle" /\ pc[q] # "idle") => req[p].doc # req[q].doc

\* a state document that has expired and is still in the collection
ExpiredStuck(s) == \E d \in oauth_states : d.state = s /\ d.expires_at <= now

\* the last step answered a callback at its lookup, for an expired state
ExpiredAnswered ==
    Completed /\ out.request.doc = 0 /\ ExpiredStuck(out.request.url_state)

\* C4 as stated: a callback with an expired state that is still stored is
\* always answered "Invalid or expired state".
C4_ExpiredAlwaysInvalid ==
    ExpiredAnswered => out.type = "Invalid or expired state"

\* C4: a callback with an expired state that is still stored never passes
\* the lookup; it is answered "Invalid or expired state", or with the 500
\* "Authentication failed" when the lookup itself raised, and the step
\* writes no user, no session and no state document.
C4_ExpiredNeverMatches ==
    [][/\ \A p \in Procs :
            (pc[p] = "idle" /\ pc'[p] = "delete") => ~ExpiredStuck(req'[p].url_state)
       /\ (Completed' /\ out'.request.doc = 0 /\ ExpiredStuck(out'.request.url_state)) =>
            /\ \/ out'.status = 400 /\ out'.type = "Invalid or expired state"
               \/ out' = [AuthFailed("store") EXCEPT !.request = out'.request]
            /\ UNCHANGED <<users, session, oauth_states>>]_vars

C4_Witness ==
    ExpiredAnswered /\ out.status = 400 /\ out.type = "Invalid or expired state"

\* C5: a generate_report request without a session is answered 200 with
\* success false and error type Auth, and the Lambda was not invoked.
C5_NoSessionAuth ==
    (Generated /\ out.request.email = NoEmail) =>
        /\ out.status = 200 /\ ~out.success /\ out.type = "Auth"
        /\ out.request.invoked = 0 /\ out.request.response = NoResponse

C5_Witness == Generated /\ out.request.email = NoEmail /\ out.type = "Auth"

\* C6: a Lambda response that carries FunctionError is answered with error
\* type LambdaFunctionError, whatever its Payload is.
C6_FunctionErrorKind ==
    (Answered /\ out.request.response.FunctionError) =>
        ~out.success /\ out.type = "LambdaFunctionError"

\* the text s without its whitespace
Squeeze(s) == SelectSeq(s, LAMBDA c : c # " ")

\* q is {} or [], inside any number of arrays of one element
RECURSIVE IsNest(_)
IsNest(q) ==
    \/ q = <<"{", "}">>
    \/ q = <<"[", "]">>
    \/ /\ Len(q) >= 4
       /\ q[1] = "["
       /\ q[Len(q)] = "]"
       /\ IsNest(SubSeq(q, 2, Len(q) - 1))

\* the string s over Chars is the text of a JSON object or array
EncodesJson(s) == IsNest(Squeeze(s))

\* the value that the text s encodes
Encoded(s) == [t |-> IF Squeeze(s)[1] = "{" THEN "object" ELSE "array", v |-> Squeeze(s)]

\* the body parsed when it is a string that encodes JSON, the body otherwise
Opportunistic(b) == IF b.t = "string" /\ EncodesJson(b.v) THEN Encoded(b.v) ELSE b

\* C7: an envelope without FunctionError whose statusCode is present and is
\* not 200 is answered with error type ReportGenerationFailed, with the
\* parsed body for details when the body is a string that encodes a JSON
\* object or array and the body itself otherwise, and nothing is stored;
\* an envelope without statusCode is never answered ReportGenerationFailed.
C7_NonOkStatus ==
    LET e == out.request.response.Payload IN
    PlainEnvelope =>
        IF e.hasStatus /\ e.statusCode # 200
        THEN /\ out.status = 200 /\ ~out.success /\ out.type = "ReportGenerationFailed"
             /\ e.hasBody => out.details = Opportunistic(e.body)
             /\ reports = <<>>
        ELSE out.success \/ out.type = "Server"

C7_Witness ==
    LET e == out.request.response.Payload IN
    /\ PlainEnvelope /\ e.hasStatus /\ e.statusCode = 500 /\ e.hasBody
    /\ e.body.t = "string" /\ EncodesJson(e.body.v) /\ e.body.v # Squeeze(e.body.v)
    /\ out.details = Encoded(e.body.v)

\* C8: for an envelope with status 200 and no FunctionError, the report
\* returned is the body when it is an object, the parsed body when it is a
\* string that encodes a JSON object or array, and {summary: s} when it is
\* another string s; it is never a string, and it is the report stored.
C8_ReportShape ==
    LET e == out.request.response.Payload IN
    (PlainEnvelope /\ (e.hasStatus => e.statusCode = 200) /\ out.success) =>
        /\ e.hasBody =>
            out.report = IF e.body.t = "string" /\ ~EncodesJson(e.body.v)
                         THEN [t |-> "object",
                               v |-> <<"{", "summary", ":", "'">> \o e.body.v \o <<"'", "}">>]
                         ELSE Opportunistic(e.body)
        /\ out.report.t # "string"
        /\ Len(reports) = 1
        /\ reports[1].report = out.report
        /\ reports[1].id = out.report_id

C8_Witness ==
    LET e == out.request.response.Payload IN
    /\ PlainEnvelope /\ e.hasStatus /\ e.statusCode = 200 /\ out.success
    /\ e.hasBody /\ e.body = Str(<<"x", " ", "{">>)
    /\ reports[1].report.t = "object"

\* C9: every successful generate_report appends one report, with an id that
\* no earlier report has and that the response returns, leaves the earlier
\* reports as they were, and sets the user's last_sync to the current time.
C9_Independent ==
    [][(Generated' /\ out'.success) =>
        /\ Len(reports') = Len(reports) + 1
        /\ SubSeq(reports', 1, Len(reports)) = reports
        /\ \A i \in 1..Len(reports) : reports[i].id # reports'[Len(reports')].id
        /\ reports'[Len(reports')].id = out'.report_id
        /\ reports'[Len(reports')].user_email = out'.request.email
        /\ users'[out'.request.email].last_sync = now]_vars

C9_Witness ==
    /\ Generated /\ out.success
    /\ Len(reports) = 2
    /\ reports[1].id # reports[2].id
    /\ reports[1].user_email = reports[2].user_email
    /\ reports[1].created_at < reports[2].created_at
    /\ users[out.request.email].last_sync = reports[2].created_at

\* C10: a callback that completes for an email that already has a user
\* document leaves the last_sync and the created_at of that document as
\* they were.
C10_UpsertPreserves ==
    [][\A p \in Procs :
        (/\ pc[p] = "upsert" /\ pc'[p] = "idle" /\ out'.status = 302
         /\ users[req[p].email].present) =>
            /\ users'[req[p].email].last_sync = users[req[p].email].last_sync
            /\ users'[req[p].email].created_at = users[req[p].email].created_at]_vars

\* the token exchange or the profile lookup of the last callback failed
ExchangeFailures == {Exc("fetch_token"), Exc("getProfile")}

\* the state value s has no document in oauth_states
Consumed(s) == \A d \in oauth_states : d.state # s

\* the step answers a callback at its lookup
LookupAnswered == Completed' /\ out'.request.doc = 0

\* the step answers the callback that retries the state whose token
\* exchange or profile lookup the callback before it failed
RetryAnswered ==
    /\ Completed /\ out.details \in ExchangeFailures
    /\ LookupAnswered /\ out'.request.url_state = out.request.url_state

\* C11 as stated: the callback that retries a state after its token
\* exchange or profile lookup failed is always answered "Invalid or
\* expired state".
C11_RetryAlwaysInvalid ==
    [][RetryAnswered => out'.type = "Invalid or expired state"]_vars

\* C11: when the token exchange or the profile lookup of a callback fails,
\* the state document is already deleted and no user or session is
\* written; a deleted state never comes back and never passes the lookup
\* again; the retry is answered "Invalid or expired state", or with the 500
\* "Authentication failed" when the lookup itself raised.
C11_ConsumedBeforeExchange ==
    [][/\ \A p \in Procs :
            (pc[p] = "delete" /\ pc'[p] = "idle" /\ out'.details \in ExchangeFailures) =>
                /\ \A d \in oauth_states' : d.state # out'.request.url_state
                /\ out'.status = 500
                /\ UNCHANGED <<users, session>>
       /\ \A s \in 1..Issued : Consumed(s) => Consumed(s)'
       /\ \A p \in Procs :
            (pc[p] = "idle" /\ pc'[p] = "delete") => ~Consumed(req'[p].url_state)
       /\ RetryAnswered =>
            \/ out'.status = 400 /\ out'.type = "Invalid or expired state"
            \/ out' = [AuthFailed("store") EXCEPT !.request = out'.request]]_vars

C11_Witness ==
    /\ Completed /\ out.request.doc = 0
    /\ out.status = 400 /\ out.type = "Invalid or expired state"
    /\ out.request.url_state \in 1..Issued
    /\ Consumed(out.request.url_state)
    /\ now = 0
    /\ \A e \in Emails : ~users[e].present

Listed == out.request.op = "get_reports"

\* the cookie of the request that the last step answered
Cookie == session[out.request.client]

\* that cookie was set by a callback more than SessionLifetime ago
Stale == Cookie.user_email # NoEmail /\ now - Cookie.at > SessionLifetime

\* C12: a request whose session cookie was set more than one hour before is
\* answered as a request without a session, Auth by generate_report with
\* no invocation and 401 by get_reports; a cookie of one hour or less
\* resolves to the email it was set for.
C12_SessionExpires ==
    (Generated \/ Listed) =>
        /\ Stale => /\ out.request.email = NoEmail
                    /\ Generated => /\ out.status = 200 /\ out.type = "Auth"
                                    /\ ~out.success /\ out.request.invoked = 0
                    /\ Listed => out.status = 401 /\ out.reports = <<>>
        /\ (Cookie.user_email # NoEmail /\ ~Stale) =>
                /\ out.request.email = Cookie.user_email
                /\ out.type # "Auth" /\ out.status # 401

C12_Witness ==
    /\ Generated /\ Stale /\ out.type = "Auth"
    /\ users[Cookie.user_email].present
    /\ Len(reports) > 0

\* the error that line 159 answers when the step named e raised
Kind(e) == AuthFailed(e).type

\* C13: a callback without state is answered 400 "No state parameter
\* received", and the error answered for a failed token exchange, for a
\* failed profile lookup and for a failed store call are three different
\* kinds.
C13_DistinctKinds ==
    Completed =>
        /\ out.request.url_state = 0 =>
                out.status = 400 /\ out.type = "No state parameter received"
        /\ out.details = Exc("fetch_token") =>
                out.type \notin {Kind("getProfile"), Kind("store")}
        /\ out.details = Exc("getProfile") =>
                out.type \notin {Kind("fetch_token"), Kind("store")}

\* the stored reports of the email e that the listing L leaves out
Omitted(e, L) ==
    {j \in 1..Len(reports) :
        reports[j].user_email = e /\ \A i \in 1..Len(L) : L[i] # reports[j]}

\* C14: get_reports answers 401 exactly when the request has no session;
\* otherwise the reports it returns are at most 10 stored reports of the
\* session's email, each once, newest first, no report of that email that
\* is left out is newer than a returned one, and a listing holds 10 of
\* them or all of them.
C14_Listing ==
    LET e == out.request.email
        L == out.reports
    IN Listed =>
        /\ (e = NoEmail) <=> (out.status = 401)
        /\ e = NoEmail => L = <<>>
        /\ Len(L) <= MaxListed
        /\ \A i \in 1..Len(L) :
            /\ L[i].user_email = e
            /\ \E j \in 1..Len(reports) : reports[j] = L[i]
        /\ \A i, j \in 1..Len(L) :
            i < j => L[i].created_at >= L[j].created_at /\ L[i].id # L[j].id
        /\ \A j \in Omitted(e, L) : \A i \in 1..Len(L) :
            reports[j].created_at <= L[i].created_at
        /\ out.status = 200 =>
            \/ Len(L) = MaxListed
            \/ Omitted(e, L) = {}

C14_Witness ==
    LET e == out.request.email
        L == out.reports
    IN /\ Listed /\ out.status = 200
       /\ Len(L) = MaxListed
       /\ Omitted(e, L) # {}
       /\ \E j \in 1..Len(reports) :
            reports[j].user_email # e /\ reports[j].created_at > L[MaxListed].created_at
       /\ L[1].created_at = L[2].created_at /\ L[1].id < L[2].id

LoggedOut == out.request.op = "logout"

\* C16: logout answers 200 and leaves the browser without a session cookie,
\* whether it had one or not, and changes no user, report or state
\* document; a logout right after a logout changes nothing; a
\* generate_report without a cookie is answered Auth with no invocation
\* and a get_reports 401; only a callback that completes sets a cookie.
C16_Logout ==
    [][/\ LoggedOut' =>
            /\ out'.status = 200 /\ out'.type = "Logged out successfully"
            /\ session'[out'.request.client] = NoCookie
            /\ \A c \in Clients : c # out'.request.client => session'[c] = session[c]
            /\ UNCHANGED <<users, reports, oauth_states>>
       /\ (LoggedOut /\ LoggedOut' /\ out'.request.client = out.request.client) =>
            UNCHANGED vars
       /\ (Generated' /\ session'[out'.request.client] = NoCookie) =>
            /\ out'.status = 200 /\ out'.type = "Auth" /\ ~out'.success
            /\ out'.request.invoked = 0
       /\ (Listed' /\ session'[out'.request.client] = NoCookie) => out'.status = 401
       /\ \A c \in Clients :
            (session[c] = NoCookie /\ session'[c] # NoCookie) =>
                /\ out'.request.op = "oauth2callback" /\ out'.status = 302
                /\ out'.request.client = c]_vars

C16_Witness ==
    /\ Generated /\ out.type = "Auth"
    /\ Cookie = NoCookie
    /\ \E e \in Emails : users[e].present /\ users[e].last_sync # NoTime
    /\ Len(reports) > 0

\* the step leaves the stored reports as they are and adds one after them
Appended == Len(reports') = Len(reports) + 1 /\ SubSeq(reports', 1, Len(reports)) = reports

\* C15 as stated: the archive changes only when a generate_report that
\* succeeds appends one report to it.
C15_OnlySuccessAppends ==
    [][reports' # reports => (Appended /\ Generated' /\ out'.success)]_vars

\* C15: no step modifies or removes a stored report; the archive changes
\* only when a generate_report appends one report to it, and that request
\* is answered with success, or with error type Server when the update of
\* last_sync raised after the insert; a callback that completes leaves the
\* archive as it is.
C15_AppendOnly ==
    [][/\ reports' # reports =>
            /\ Appended
            /\ Generated'
            /\ \/ out'.success /\ out'.report = reports'[Len(reports')].report
               \/ out'.type = "Server" /\ out'.details = Exc("update_one")
       /\ Completed' => reports' = reports]_vars

C15_Witness ==
    /\ Completed /\ out.status = 302
    /\ Len(reports) > 0
    /\ reports[1].user_email = out.request.email
    /\ users[out.request.email].created_at > reports[1].created_at

\* the state value s has a document that has not expired
Live(s) == \E d \in oauth_states : d.state = s /\ d.expires_at > now

\* C17: with callbacks interleaving, the step that deletes the state
\* document of a callback removes that document and no other, and a
\* callback passes the lookup exactly when its own state has a document
\* that has not expired, whatever the other callback holds or does.
C17_NoInterference ==
    [][\A p \in Procs :
        /\ (pc[p] = "delete" /\ pc'[p] # "delete") =>
            \A d \in oauth_states : d.state # req[p].url_state => d \in oauth_states'
        /\ (pc[p] = "idle" /\ pc'[p] = "delete") =>
            Live(req'[p].url_state) /\ req'[p].doc = req'[p].url_state
        /\ (pc[p] = "idle" /\ pc'[p] = "idle" /\ LookupAnswered
            /\ out'.type = "Invalid or expired state") =>
                ~Live(out'.request.url_state)
        /\ \A s \in 1..Issued :
            (Live(s) /\ ~Live(s)') =>
                \/ now' # now
                \/ \E q \in Procs : pc[q] = "delete" /\ pc'[q] # "delete"
                                    /\ req[q].url_state = s]_vars

C17_Witness ==
    \E p, q \in Procs :
        /\ pc[p] = "upsert" /\ pc[q] = "delete"
        /\ req[p].url_state # req[q].url_state
        /\ Consumed(req[p].url_state)
        /\ Live(req[q].url_state)

\* the error types with which generate_report returns before it stores
EarlyErrors == {"Auth", "NotFound", "LambdaFunctionError", "ReportGenerationFailed"}

\* the response of the Lambda has no FunctionError and is an object whose
\* statusCode is 200 or absent
OkEnvelope(response) ==
    /\ ~response.FunctionError
    /\ \/ response.Payload.k = "empty"
       \/ /\ response.Payload.k = "envelope"
          /\ response.Payload.hasStatus => response.Payload.statusCode = 200
       \/ /\ response.Payload.k = "text"
          /\ EncodesJson(response.Payload.chars)
          /\ Squeeze(response.Payload.chars)[1] = "{"

\* C18: a generate_report answered Auth, NotFound, LambdaFunctionError or
\* ReportGenerationFailed leaves the reports and the users as they were;
\* a generate_report that inserts a report or writes last_sync has invoked
\* the Lambda and received a response without FunctionError and with
\* status 200.
C18_ErrorFrame ==
    [][Generated' =>
        /\ out'.type \in EarlyErrors => UNCHANGED <<reports, users>>
        /\ (reports' # reports \/ users' # users) =>
            /\ out'.request.invoked = 1
            /\ OkEnvelope(out'.request.response)
            /\ out'.type \notin EarlyErrors]_vars

C18_Witness ==
    /\ Generated /\ out.type = "ReportGenerationFailed"
    /\ Len(reports) = 1
    /\ users[out.request.email].last_sync = reports[1].created_at
    /\ now > reports[1].created_at

\* C19: in every state the email of a session cookie has a user document,
\* and no generate_report is answered NotFound.
C19_SessionHasUser ==
    /\ \A c \in Clients :
        session[c].user_email # NoEmail => users[session[c].user_email].present
    /\ Generated => out.type # "NotFound"

C19_Witness ==
    /\ Generated /\ out.request.email # NoEmail
    /\ out.request.invoked = 1
    /\ users[out.request.email].present
    /\ \E e \in Emails : e # out.request.email /\ users[e].present

====
